---- MODULE Spec2Model ----
(***************************************************************************)
(* A model of the federation repository's two entry surfaces:              *)
(*   - the query planner facade, stargate/crates/query-planner/src/lib.rs  *)
(*     (QueryPlanner::new, QueryPlanner::plan, QueryPlanningOptions), with *)
(*     the planning pipeline behind build_query_plan;                      *)
(*   - the graph-registry client, apollo/src/graphql/client.rs             *)
(*     (ApolloCloudClient::get_org_memberships, create_new_graph).         *)
(***************************************************************************)
EXTENDS Integers, Sequences, FiniteSets, TLC

\* ------------------------------------------------------------------ bounds

\* the longest selection set of a modelled query
MaxQueryLen == 2
\* the number of threads sharing one planner in SpecConc
NumThreads == 2
\* the longest memberships list of a modelled registry response
MaxMemberships == 2
\* the longest apiKeys list of a modelled registry response
MaxApiKeys == 2

\* ------------------------------------------------------------------ helpers

Range(s) == {s[i] : i \in 1..Len(s)}

SeqsUpTo(S, n) == UNION {[1..k -> S] : k \in 0..n}

IsInjective(s) == \A i, j \in 1..Len(s) : s[i] = s[j] => i = j

\* Option<T>
None == [some |-> FALSE]
Some(v) == [some |-> TRUE, v |-> v]

\* ------------------------------------------------------------------ planner inputs

Fields == {"name", "price", "reviews"}
\* the order in which the schema declares the fields
FieldOrder == <<"name", "price", "reviews">>

\* a parsed schema document: per field the owning subgraph ("none": the field
\* is not defined, or no subgraph serves it) and the fields its subgraph needs
\* as input (entity key / @requires field-set)
MkDoc(o, r) == [owner |-> o, requires |-> r]

NoRequires == [f \in Fields |-> {}]

DocShop ==
    MkDoc([name |-> "accounts", price |-> "products", reviews |-> "reviews"],
          [name |-> {}, price |-> {}, reviews |-> {"name"}])

DocChain ==
    MkDoc([name |-> "accounts", price |-> "products", reviews |-> "reviews"],
          [name |-> {}, price |-> {"name"}, reviews |-> {"price"}])

DocCycle ==
    MkDoc([name |-> "none", price |-> "products", reviews |-> "reviews"],
          [name |-> {}, price |-> {"reviews"}, reviews |-> {"price"}])

SchemaDocs == {DocShop, DocChain, DocCycle}

\* schema SDL text: what the caller hands to QueryPlanner::new
MalformedSdl == [wellformed |-> FALSE, doc |-> MkDoc([f \in Fields |-> "none"], NoRequires)]
SchemaTexts == {[wellformed |-> TRUE, doc |-> d] : d \in SchemaDocs} \cup {MalformedSdl}

\* operation text: what the caller hands to plan()
MalformedQuery == [wellformed |-> FALSE, selection |-> <<>>]
QueryTexts ==
    {[wellformed |-> TRUE, selection |-> s] :
        s \in {q \in SeqsUpTo(Fields, MaxQueryLen) : Len(q) >= 1 /\ IsInjective(q)}}
    \cup {MalformedQuery}

\* ------------------------------------------------------------------ parser (graphql_parser)

ParseOk(d) == [ok |-> TRUE, doc |-> d]
ParseErr == [ok |-> FALSE]

\* parse_schema(schema)
parse_schema(text) == IF text.wellformed THEN ParseOk(text.doc) ELSE ParseErr

\* parse_query(query)
parse_query(text) ==
    IF text.wellformed THEN ParseOk([selection |-> text.selection]) ELSE ParseErr

\* ------------------------------------------------------------------ outcomes

NoOutcome == [kind |-> "none"]
PlanOk(p) == [kind |-> "plan", plan |-> p]
Error(e, why) == [kind |-> "error", error |-> e, reason |-> why]
Panic(msg) == [kind |-> "panic", message |-> msg]
\* the call was in flight when the process aborted
Killed == [kind |-> "killed"]

\* ------------------------------------------------------------------ options

\* QueryPlanningOptionsBuilder: each field is unset until its setter is called
BuilderDefault == [auto_fragmentization |-> None]

\* QueryPlanningOptionsBuilder::auto_fragmentization(value)
BuilderSetAutoFragmentization(b, value) == [b EXCEPT !.auto_fragmentization = Some(value)]

\* a plausible slip: the unset field builds to true
OptionsBuildUnsetTrue(b) ==
    [auto_fragmentization |->
        IF b.auto_fragmentization.some THEN b.auto_fragmentization.v ELSE TRUE]

\* QueryPlanningOptionsBuilder::build(): #[builder(default)] fills an unset
\* field with bool::default()
OptionsBuild(b) ==
    [auto_fragmentization |->
        IF b.auto_fragmentization.some THEN b.auto_fragmentization.v ELSE FALSE]

\* <QueryPlanningOptions as Default>::default()
OptionsDefault == [auto_fragmentization |-> FALSE]

\* ------------------------------------------------------------------ planning pipeline

\* the selected fields together with every field they need as input
RECURSIVE RequiredClosure(_, _)
RequiredClosure(doc, fs) ==
    LET more == fs \cup UNION {doc.requires[f] : f \in fs}
    IN  IF more = fs THEN fs ELSE RequiredClosure(doc, more)

\* the query's fields in order of first appearance, then the injected ones
SelectionOrder(doc, selection) ==
    LET all == RequiredClosure(doc, Range(selection))
        InjectedField(f) == f \in all \ Range(selection)
    IN  selection \o SelectSeq(FieldOrder, InjectedField)

\* the owning subgraphs in order of the first field each serves
RECURSIVE ServiceOrder(_, _)
ServiceOrder(doc, order) ==
    IF order = <<>> THEN <<>>
    ELSE LET s == doc.owner[Head(order)]
             NotS(x) == x # s
         IN  <<s>> \o SelectSeq(ServiceOrder(doc, Tail(order)), NotS)

\* Fetch-Group Builder: one group per owning subgraph; a group depends on the
\* groups that own the fields its own fields need as input
FetchGroups(doc, selection) ==
    LET order == SelectionOrder(doc, selection)
        services == ServiceOrder(doc, order)
        Group(s) ==
            LET OwnedByS(f) == doc.owner[f] = s
                mine == SelectSeq(order, OwnedByS)
                needs == UNION {doc.requires[f] : f \in Range(mine)}
            IN  [service |-> s,
                 selection |-> mine,
                 requires |-> {f \in needs : doc.owner[f] # s},
                 deps |-> {doc.owner[f] : f \in needs} \ {s}]
    IN  [i \in 1..Len(services) |-> Group(services[i])]

Unserved(doc, selection) ==
    \E f \in RequiredClosure(doc, Range(selection)) : doc.owner[f] = "none"

\* a plausible slip, the edge test turned round: a layer holds the groups that
\* no remaining group depends on, so dependents come first
RECURSIVE LayeringDependentsFirst(_, _)
LayeringDependentsFirst(remaining, placed) ==
    IF remaining = {} THEN <<>>
    ELSE LET ready == {g \in remaining :
                          \A h \in remaining : g.service \notin h.deps}
         IN  IF ready = {} THEN <<{}>>
             ELSE <<ready>> \o LayeringDependentsFirst(remaining \ ready,
                                        placed \cup {g.service : g \in ready})

\* Plan Assembler, topological layering: a layer holds the groups all of whose
\* dependencies lie in earlier layers; an empty layer marks a dependency cycle
RECURSIVE Layering(_, _)
Layering(remaining, placed) ==
    IF remaining = {} THEN <<>>
    ELSE LET ready == {g \in remaining : g.deps \subseteq placed}
         IN  IF ready = {} THEN <<{}>>
             ELSE <<ready>> \o Layering(remaining \ ready,
                                        placed \cup {g.service : g \in ready})

Circular(layers) == \E i \in 1..Len(layers) : layers[i] = {}

FetchNode(g) ==
    [kind |-> "Fetch", serviceName |-> g.service, operation |-> g.selection,
     requires |-> g.requires]

\* one layer's node: a bare Fetch for one group, else a Parallel of the
\* layer's fetches in the order their fields first appeared in the query
LayerNode(groups, layer) ==
    LET InLayer(g) == g \in layer
        mine == SelectSeq(groups, InLayer)
        nodes == [i \in 1..Len(mine) |-> FetchNode(mine[i])]
    IN  IF Len(nodes) = 1 THEN nodes[1] ELSE [kind |-> "Parallel", nodes |-> nodes]

\* Plan Assembler: a single layer collapses to its node, several are wrapped
\* in a Sequence in layer order
Assemble(groups, layers) ==
    IF Len(layers) = 1 THEN LayerNode(groups, layers[1])
    ELSE [kind |-> "Sequence",
          nodes |-> [i \in 1..Len(layers) |-> LayerNode(groups, layers[i])]]

\* build_query_plan(schema, query, options). The options are read by the
\* autofragmentizer alone, which factors a field-set that recurs at several
\* selection sites of one fetch; the flat selections modelled here have none.
build_query_plan(doc, queryDoc, options) ==
    IF Unserved(doc, queryDoc.selection)
    THEN Error("InvalidQuery", "field not served by any subgraph")
    ELSE LET groups == FetchGroups(doc, queryDoc.selection)
             layers == Layering(Range(groups), {})
         IN  IF Circular(layers)
             THEN Error("InvalidQuery", "circular requires")
             ELSE PlanOk(Assemble(groups, layers))

\* ------------------------------------------------------------------ planner state

Threads == 1..NumThreads

VARIABLES
    strategy,     \* the build's panic strategy: "unwind" or "abort"
    proc,         \* "running", or "aborted" once a panic has ended the process
    newCall,      \* the last QueryPlanner::new call: its text and how it ended
    planner,      \* Option<QueryPlanner>: the planner and its schema field
    builder,      \* Option<QueryPlanningOptionsBuilder> of the caller
    calls,        \* per thread: the plan() call it is in, and its locals
    ref,          \* ghost: a finished plan() call the caller keeps for comparison
    client,       \* Option<ApolloCloudClient>
    lastCall      \* the last registry call: request, response and how it ended

plannerVars == <<newCall, planner, builder, calls, ref>>
clientVars == <<client, lastCall>>
vars == <<strategy, proc, plannerVars, clientVars>>

IdleCall ==
    [pc |-> "idle", query |-> None, explicit |-> None,
     options |-> OptionsDefault, queryDoc |-> None, outcome |-> NoOutcome]

InFlight(c) == c.pc \in {"parse", "build"}

\* a panic raised by thread t: under "unwind" the call ends in the panic and
\* its caller goes on; under "abort" the process ends, and with it every call
\* that is in flight
PanicIn(t, msg) ==
    IF strategy = "unwind"
    THEN /\ calls' = [calls EXCEPT ![t].pc = "returned", ![t].outcome = Panic(msg)]
         /\ proc' = proc
    ELSE /\ calls' = [u \in Threads |->
                IF u = t THEN [calls[u] EXCEPT !.pc = "returned", !.outcome = Panic(msg)]
                ELSE IF InFlight(calls[u])
                     THEN [calls[u] EXCEPT !.pc = "returned", !.outcome = Killed]
                     ELSE calls[u]]
         /\ proc' = "aborted"

\* QueryPlanner::new(schema)
QueryPlannerNew(text) ==
    /\ proc = "running"
    /\ ~planner.some
    /\ LET parsed == parse_schema(text)
       IN  IF parsed.ok
           THEN /\ planner' = Some([schema |-> parsed.doc])
                /\ newCall' = Some([text |-> text, outcome |-> [kind |-> "planner"]])
                /\ proc' = proc
           ELSE /\ newCall' = Some([text |-> text,
                                    outcome |-> Panic("failed parsing schema")])
                /\ proc' = IF strategy = "abort" THEN "aborted" ELSE proc
                /\ planner' = planner
    /\ UNCHANGED <<strategy, builder, calls, ref, clientVars>>

\* pub schema: the planner's owner assigns the field while no call borrows
\* it; results kept from the old schema are dropped
OwnerSetSchema(doc) ==
    /\ proc = "running"
    /\ planner.some
    /\ \A t \in Threads : calls[t].pc = "idle"
    /\ doc # planner.v.schema
    /\ planner' = Some([schema |-> doc])
    /\ ref' = None
    /\ UNCHANGED <<strategy, proc, newCall, builder, calls, clientVars>>

\* QueryPlanningOptionsBuilder::default()
NewBuilder ==
    /\ proc = "running"
    /\ ~builder.some
    /\ \A t \in Threads : calls[t].pc = "idle"
    /\ builder' = Some(BuilderDefault)
    /\ UNCHANGED <<strategy, proc, newCall, planner, calls, ref, clientVars>>

\* .auto_fragmentization(value)
SetAutoFragmentization(value) ==
    /\ proc = "running"
    /\ builder.some
    /\ builder.v # BuilderSetAutoFragmentization(builder.v, value)
    /\ builder' = Some(BuilderSetAutoFragmentization(builder.v, value))
    /\ UNCHANGED <<strategy, proc, newCall, planner, calls, ref, clientVars>>

\* planner.plan(query, builder.build().unwrap()): entry of the call
PlanBegin(t, text) ==
    /\ proc = "running"
    /\ planner.some
    /\ builder.some
    /\ calls[t].pc = "idle"
    /\ calls' = [calls EXCEPT ![t] =
           [pc |-> "parse", query |-> Some(text),
            explicit |-> builder.v.auto_fragmentization,
            options |-> OptionsBuild(builder.v),
            queryDoc |-> None, outcome |-> NoOutcome]]
    /\ builder' = None
    /\ UNCHANGED <<strategy, proc, newCall, planner, ref, clientVars>>

\* planner.plan(query, QueryPlanningOptions::default()): entry of the call
PlanBeginDefault(t, text) ==
    /\ proc = "running"
    /\ planner.some
    /\ ~builder.some
    /\ calls[t].pc = "idle"
    /\ calls' = [calls EXCEPT ![t] =
           [pc |-> "parse", query |-> Some(text), explicit |-> None,
            options |-> OptionsDefault, queryDoc |-> None, outcome |-> NoOutcome]]
    /\ UNCHANGED <<strategy, proc, newCall, planner, builder, ref, clientVars>>

\* plan(): let query = parse_query(query).expect("failed parsing query")
PlanParse(t) ==
    /\ proc = "running"
    /\ calls[t].pc = "parse"
    /\ LET parsed == parse_query(calls[t].query.v)
       IN  IF parsed.ok
           THEN /\ calls' = [calls EXCEPT ![t].pc = "build",
                                          ![t].queryDoc = Some(parsed.doc)]
                /\ proc' = proc
           ELSE PanicIn(t, "failed parsing query")
    /\ UNCHANGED <<strategy, newCall, planner, builder, ref, clientVars>>

\* a plausible slip: plan() takes the schema out of the planner as it builds
PlanBuildTakesSchema(t) ==
    /\ proc = "running"
    /\ calls[t].pc = "build"
    /\ calls' = [calls EXCEPT
           ![t].pc = "returned",
           ![t].outcome = build_query_plan(planner.v.schema, calls[t].queryDoc.v,
                                           calls[t].options)]
    /\ planner' = Some([schema |-> MkDoc([f \in Fields |-> "none"], NoRequires)])
    /\ UNCHANGED <<strategy, proc, newCall, builder, ref, clientVars>>

\* plan(): build_query_plan(&self.schema, &query, options)
PlanBuild(t) ==
    /\ proc = "running"
    /\ calls[t].pc = "build"
    /\ calls' = [calls EXCEPT
           ![t].pc = "returned",
           ![t].outcome = build_query_plan(planner.v.schema, calls[t].queryDoc.v,
                                           calls[t].options)]
    /\ UNCHANGED <<strategy, proc, newCall, planner, builder, ref, clientVars>>

CallRecord(c) ==
    [query |-> c.query.v, options |-> c.options, outcome |-> c.outcome]

\* the caller is done with the call's result: the query document and the plan
\* are dropped; with keep, the caller notes the result to compare later calls
\* with
PlanFinish(t, keep) ==
    /\ proc = "running"
    /\ calls[t].pc = "returned"
    /\ calls' = [calls EXCEPT ![t] = IdleCall]
    /\ ref' = IF keep THEN Some(CallRecord(calls[t])) ELSE ref
    /\ UNCHANGED <<strategy, newCall, planner, builder, clientVars>>
    /\ proc' = proc

\* the schema document built at construction
Constructed == parse_schema(newCall.v.text).doc

Init ==
    /\ strategy \in {"unwind", "abort"}
    /\ proc = "running"
    /\ newCall = None
    /\ planner = None
    /\ builder = None
    /\ calls = [t \in Threads |-> IdleCall]
    /\ ref = None
    /\ client = None
    /\ lastCall = None

\* one caller, one call at a time
Next ==
    \/ \E text \in SchemaTexts : QueryPlannerNew(text)
    \/ \E doc \in SchemaDocs : OwnerSetSchema(doc)
    \/ NewBuilder
    \/ \E value \in BOOLEAN : SetAutoFragmentization(value)
    \/ \E text \in QueryTexts : PlanBegin(1, text)
    \/ \E text \in QueryTexts : PlanBeginDefault(1, text)
    \/ PlanParse(1)
    \/ PlanBuild(1)
    \/ \E keep \in BOOLEAN : PlanFinish(1, keep)

Spec == Init /\ [][Next]_vars

\* NumThreads threads share the planner and call plan() concurrently
NextConc ==
    \/ \E text \in SchemaTexts : QueryPlannerNew(text)
    \/ \E doc \in SchemaDocs : OwnerSetSchema(doc)
    \/ \E t \in Threads, text \in QueryTexts : PlanBeginDefault(t, text)
    \/ \E t \in Threads : PlanParse(t)
    \/ \E t \in Threads : PlanBuild(t)
    \/ \E t \in Threads : PlanFinish(t, FALSE)

SpecConc == Init /\ [][NextConc]_vars

\* ------------------------------------------------------------------ registry responses

AccountIds == {"acct1", "acct2"}
Tokens == {"key1", "key2"}

Absent == [tag |-> "absent"]
Null == [tag |-> "null"]
\* a JSON value of a type the target struct does not accept
Malformed == [tag |-> "malformed"]

\* the "me" member of data: memberships lists the account ids
MeValues ==
    {Absent, Null, Malformed}
    \cup {[tag |-> "object", memberships |-> m] : m \in SeqsUpTo(AccountIds, MaxMemberships)}

\* the "newService" member of data: apiKeys lists the tokens
NewServiceValues ==
    {Absent, Malformed}
    \cup {[tag |-> "object", id |-> "graph1", apiKeys |-> k] :
             k \in SeqsUpTo(Tokens, MaxApiKeys)}

DataValues ==
    {Absent, Null, Malformed}
    \cup {[tag |-> "object", me |-> m, newService |-> Absent] : m \in MeValues}
    \cup {[tag |-> "object", me |-> Absent, newService |-> n] : n \in NewServiceValues}

ErrorsValues ==
    {Absent} \cup {[tag |-> "list", items |-> e] : e \in {<<>>, <<"boom">>}}

NotJson == [json |-> FALSE]

Bodies ==
    {NotJson}
    \cup {[json |-> TRUE, data |-> d, errors |-> e] : d \in DataValues, e \in ErrorsValues}

\* what the endpoint does with one request: send() fails, reading the body
\* fails, or a body arrives
Responses ==
    {[transport |-> "send_error", body |-> NotJson],
     [transport |-> "body_error", body |-> NotJson]}
    \cup {[transport |-> "ok", body |-> b] : b \in Bodies}

\* ------------------------------------------------------------------ registry client

Decoded(v) == [ok |-> TRUE, value |-> v]
DecodeError == [ok |-> FALSE]

\* Option<Vec<GraphqlError>>
DecodeErrors(e) == IF e.tag = "list" THEN Some(e.items) ELSE None

\* serde_json::from_str::<GetOrgMembershipResponse>: an Option field decodes
\* an absent or null member to None; a member of the wrong shape is an error;
\* members the struct does not name are ignored
DecodeGetOrgMembershipResponse(body) ==
    IF ~body.json THEN DecodeError
    ELSE IF body.data.tag \in {"absent", "null"}
    THEN Decoded([data |-> None, errors |-> DecodeErrors(body.errors)])
    ELSE IF body.data.tag = "malformed" THEN DecodeError
    ELSE IF body.data.me.tag \in {"absent", "null"}
    THEN Decoded([data |-> Some([me |-> None]), errors |-> DecodeErrors(body.errors)])
    ELSE IF body.data.me.tag = "malformed" THEN DecodeError
    ELSE Decoded([data |-> Some([me |-> Some([memberships |-> body.data.me.memberships])]),
                  errors |-> DecodeErrors(body.errors)])

\* serde_json::from_str::<CreateGraphResponse>: newService is not optional
DecodeCreateGraphResponse(body) ==
    IF ~body.json THEN DecodeError
    ELSE IF body.data.tag \in {"absent", "null"}
    THEN Decoded([data |-> None, errors |-> DecodeErrors(body.errors)])
    ELSE IF body.data.tag = "malformed" THEN DecodeError
    ELSE IF body.data.newService.tag # "object" THEN DecodeError
    ELSE Decoded([data |-> Some([newService |->
                      [id |-> body.data.newService.id,
                       apiKeys |-> body.data.newService.apiKeys]]),
                  errors |-> DecodeErrors(body.errors)])

ClientOk(v) == [kind |-> "Ok", value |-> v]
ClientErr(e) == [kind |-> "Err", error |-> e]

\* how an operation ended, and the requests it sent
Ended(outcome, n) == [outcome |-> outcome, requests |-> n]

\* execute_operation_no_variables::<GetOrgMembershipResponse>
execute_operation_no_variables(cl, resp) ==
    IF ~cl.auth_token.valid_header THEN Ended(Panic("invalid header value"), 0)
    ELSE IF resp.transport = "send_error" THEN Ended(Panic("send failed"), 1)
    ELSE IF resp.transport = "body_error" THEN Ended(Panic("reading the body failed"), 1)
    ELSE LET r == DecodeGetOrgMembershipResponse(resp.body)
         IN  IF r.ok THEN Ended(ClientOk(r.value), 1)
             ELSE Ended(Panic("Invalid response from Apollo cloud!"), 1)

\* execute_operation::<CreateGraphResponse, CreateGraphVariables>
execute_operation(cl, variables, resp) ==
    IF ~cl.auth_token.valid_header THEN Ended(Panic("invalid header value"), 0)
    ELSE IF resp.transport = "send_error" THEN Ended(Panic("send failed"), 1)
    ELSE IF resp.transport = "body_error" THEN Ended(Panic("reading the body failed"), 1)
    ELSE LET r == DecodeCreateGraphResponse(resp.body)
         IN  IF r.ok THEN Ended(ClientOk(r.value), 1)
             ELSE Ended(Panic("Invalid response from Apollo cloud!"), 1)

AuthError == "Could not authenticate. Please check that your auth token is up-to-date"

\* a plausible slip: only the first membership is collected
get_org_memberships_first_only(cl, resp) ==
    LET exec == execute_operation_no_variables(cl, resp)
    IN  IF exec.outcome.kind = "panic" THEN exec
        ELSE IF exec.outcome.kind = "Err"
        THEN Ended(ClientErr("Could not fetch organizations"), exec.requests)
        ELSE LET result == exec.outcome.value
             IN  IF ~result.data.some
                 THEN Ended(Panic("unwrap on None"),
                            exec.requests)
                 ELSE IF result.data.v.me.some
                 THEN LET m == result.data.v.me.v.memberships
                      IN  Ended(ClientOk(IF m = <<>> THEN {} ELSE {m[1]}), exec.requests)
                 ELSE Ended(ClientErr(AuthError), exec.requests)

\* ApolloCloudClient::get_org_memberships
get_org_memberships(cl, resp) ==
    LET exec == execute_operation_no_variables(cl, resp)
    IN  IF exec.outcome.kind = "panic" THEN exec
        ELSE IF exec.outcome.kind = "Err"
        THEN Ended(ClientErr("Could not fetch organizations"), exec.requests)
        ELSE LET result == exec.outcome.value
             IN  IF ~result.data.some
                 THEN Ended(Panic("unwrap on None"),
                            exec.requests)
                 ELSE IF result.data.v.me.some
                 THEN Ended(ClientOk(Range(result.data.v.me.v.memberships)),
                            exec.requests)
                 ELSE Ended(ClientErr(AuthError), exec.requests)

\* ApolloCloudClient::create_new_graph
create_new_graph(cl, graph_id, account_id, resp) ==
    LET variables == [graphID |-> graph_id, accountID |-> account_id]
        exec == execute_operation(cl, variables, resp)
    IN  IF exec.outcome.kind # "Ok"
        THEN Ended(Panic("unwrap on Err"), exec.requests)
        ELSE LET result == exec.outcome.value
             IN  IF ~result.data.some
                 THEN Ended(Panic("unwrap on None"),
                            exec.requests)
                 ELSE IF result.data.v.newService.apiKeys = <<>>
                 THEN Ended(Panic("index out of bounds"), exec.requests)
                 ELSE Ended(ClientOk(result.data.v.newService.apiKeys[1]), exec.requests)

AfterPanic(outcome) ==
    IF outcome.kind = "panic" /\ strategy = "abort" THEN "aborted" ELSE proc

\* ApolloCloudClient::new(endpoint_url, auth_token)
ApolloCloudClientNew(valid_header) ==
    /\ proc = "running"
    /\ ~client.some
    /\ client' = Some([endpoint_url |-> "registry",
                       auth_token |-> [valid_header |-> valid_header]])
    /\ UNCHANGED <<strategy, proc, plannerVars, lastCall>>

\* a call of client.get_org_memberships()
GetOrgMemberships(resp) ==
    /\ proc = "running"
    /\ client.some
    /\ LET end == get_org_memberships(client.v, resp)
       IN  /\ lastCall' = Some([op |-> "get_org_memberships", response |-> resp,
                                outcome |-> end.outcome, requests |-> end.requests])
           /\ proc' = AfterPanic(end.outcome)
    /\ UNCHANGED <<strategy, plannerVars, client>>

\* a call of client.create_new_graph(graph_id, account_id)
CreateNewGraph(graph_id, account_id, resp) ==
    /\ proc = "running"
    /\ client.some
    /\ LET end == create_new_graph(client.v, graph_id, account_id, resp)
       IN  /\ lastCall' = Some([op |-> "create_new_graph", response |-> resp,
                                outcome |-> end.outcome, requests |-> end.requests])
           /\ proc' = AfterPanic(end.outcome)
    /\ UNCHANGED <<strategy, plannerVars, client>>

NextClient ==
    \/ \E valid_header \in BOOLEAN : ApolloCloudClientNew(valid_header)
    \/ \E resp \in Responses : GetOrgMemberships(resp)
    \/ \E resp \in Responses : CreateNewGraph("graph1", "acct1", resp)

SpecClient == Init /\ [][NextClient]_vars

\* ------------------------------------------------------------------ planner claims

Returned(t) == calls[t].pc = "returned"

IsError(outcome, e) == outcome.kind = "error" /\ outcome.error = e

\* C1: QueryPlanner::new, given SDL text the schema parser rejects, returns
\* the error value FailedParsingSchema to its caller and does not panic.
C1_NewReturnsFailedParsingSchema ==
    (newCall.some /\ ~newCall.v.text.wellformed)
        => /\ IsError(newCall.v.outcome, "FailedParsingSchema")
           /\ proc = "running"

\* C2: plan(), given operation text the query parser rejects, returns the
\* error value FailedParsingQuery for that call and leaves the process running
\* for later calls.
C2_PlanReturnsFailedParsingQuery ==
    \A t \in Threads :
        (Returned(t) /\ ~calls[t].query.v.wellformed)
            => /\ IsError(calls[t].outcome, "FailedParsingQuery")
               /\ proc = "running"

SelectsUnservedField(t) ==
    /\ calls[t].query.v.wellformed
    /\ \E f \in Range(calls[t].query.v.selection) : planner.v.schema.owner[f] = "none"

\* C3: every plan() call ends with one complete plan or one error
\* (FailedParsingQuery or InvalidQuery), never with a panic; a query that
\* selects a field no subgraph defines ends with InvalidQuery and no plan.
C3_PlanEndsInPlanOrError ==
    \A t \in Threads :
        Returned(t)
            => /\ \/ calls[t].outcome.kind = "plan"
                  \/ IsError(calls[t].outcome, "FailedParsingQuery")
                  \/ IsError(calls[t].outcome, "InvalidQuery")
               /\ SelectsUnservedField(t) => IsError(calls[t].outcome, "InvalidQuery")

\* the fetches a plan node holds directly: itself, or a Parallel's children
HoldsFetch(node, service) ==
    IF node.kind = "Fetch" THEN node.serviceName = service
    ELSE /\ node.kind = "Parallel"
         /\ \E i \in 1..Len(node.nodes) :
                /\ node.nodes[i].kind = "Fetch"
                /\ node.nodes[i].serviceName = service

\* the Sequence positions at which a plan fetches from a subgraph; a plan that
\* is no Sequence has the single position 1
Positions(plan, service) ==
    IF plan.kind = "Sequence"
    THEN {i \in 1..Len(plan.nodes) : HoldsFetch(plan.nodes[i], service)}
    ELSE {i \in {1} : HoldsFetch(plan, service)}

DependencyOrdered(plan, groups) ==
    \A i, j \in 1..Len(groups) :
        groups[i].service \in groups[j].deps
            => /\ Positions(plan, groups[i].service) # {}
               /\ Positions(plan, groups[j].service) # {}
               /\ \A a \in Positions(plan, groups[i].service),
                     b \in Positions(plan, groups[j].service) : a <= b

\* C4: in every plan that plan() returns, a fetch group that another group
\* depends on has its Fetch at an earlier or the same Sequence position as the
\* dependent group's Fetch; no dependent Fetch comes before one it depends on.
C4_DependencyOrdering ==
    \A t \in Threads :
        (Returned(t) /\ calls[t].outcome.kind = "plan")
            => DependencyOrdered(calls[t].outcome.plan,
                   FetchGroups(planner.v.schema, calls[t].queryDoc.v.selection))

\* a returned plan is a Sequence of three layers: a chain of two dependencies
C4_Witness ==
    \E t \in Threads :
        /\ Returned(t)
        /\ calls[t].outcome.kind = "plan"
        /\ calls[t].outcome.plan.kind = "Sequence"
        /\ Len(calls[t].outcome.plan.nodes) = 3

SameInput(t) ==
    /\ ref.some
    /\ Returned(t)
    /\ ref.v.query = calls[t].query.v
    /\ ref.v.options = calls[t].options

C6_OptionsDefault ==
    \A t \in Threads :
        calls[t].pc # "idle"
            => (calls[t].options.auto_fragmentization = (calls[t].explicit = Some(TRUE)))

\* a call runs with options built from a builder no setter was called on
C6_Witness ==
    \E t \in Threads :
        /\ calls[t].pc = "parse"
        /\ calls[t].explicit = None
        /\ calls[t].options.auto_fragmentization = FALSE
        /\ builder = None
        /\ newCall.some

\* plan(query, options) run with no other call on the planner
AloneOutcome(doc, text, options) ==
    LET parsed == parse_query(text)
    IN  IF parsed.ok THEN build_query_plan(doc, parsed.doc, options)
        ELSE Panic("failed parsing query")

\* C9: while plan() calls run concurrently on one planner, the planner's
\* schema stays the document built at construction, and every call ends as
\* the same call run alone ends.
C9_SchemaFixedCallsIsolated ==
    \A t \in Threads :
        /\ calls[t].pc # "idle" => planner.v.schema = Constructed
        /\ Returned(t)
               => calls[t].outcome =
                      AloneOutcome(Constructed, calls[t].query.v, calls[t].options)

\* ------------------------------------------------------------------ registry client claims

\* the request went out and a body came back
Answered == lastCall.some /\ lastCall.v.requests = 1 /\ lastCall.v.response.transport = "ok"

Body == lastCall.v.response.body

Decodable ==
    IF lastCall.v.op = "get_org_memberships"
    THEN DecodeGetOrgMembershipResponse(Body).ok
    ELSE DecodeCreateGraphResponse(Body).ok

CarriesErrors == Body.json /\ Body.errors.tag = "list" /\ Body.errors.items # <<>>

\* C7: get_org_memberships and create_new_graph never return a success value
\* when the transport fails, the body does not decode, or the envelope carries
\* a non-empty errors array (with or without data); each call sends at most
\* one request.
C7_FailsLoudlyNoRetry ==
    lastCall.some
        => /\ lastCall.v.requests <= 1
           /\ (\/ lastCall.v.response.transport # "ok"
               \/ ~Decodable
               \/ CarriesErrors)
                  => lastCall.v.outcome.kind # "Ok"

\* C8: every registry call whose request went out comes back to its caller as
\* Ok or Err, whatever the endpoint answers; none ends the process.
C8_TypedErrorsNoAbort ==
    (lastCall.some /\ lastCall.v.requests = 1)
        => /\ lastCall.v.outcome.kind \in {"Ok", "Err"}
           /\ proc = "running"

\* a decodable answer with data and without errors
AnsweredWithData ==
    /\ Answered
    /\ Decodable
    /\ ~CarriesErrors
    /\ Body.data.tag = "object"

\* C10: on a decodable answer without failure get_org_memberships returns the
\* set of the memberships' account ids when data has a me object and the
\* authentication error when it has none; create_new_graph returns the API key
\* token of the new graph.
C10_ResultsOnSuccess ==
    AnsweredWithData
        => IF lastCall.v.op = "get_org_memberships"
           THEN IF Body.data.me.tag = "object"
                THEN lastCall.v.outcome =
                         ClientOk({Body.data.me.memberships[i] :
                                      i \in 1..Len(Body.data.me.memberships)})
                ELSE lastCall.v.outcome = ClientErr(AuthError)
           ELSE Body.data.newService.apiKeys # <<>>
                    => lastCall.v.outcome = ClientOk(Body.data.newService.apiKeys[1])

\* get_org_memberships has answered two memberships of two accounts
C10_Witness ==
    /\ AnsweredWithData
    /\ lastCall.v.op = "get_org_memberships"
    /\ Body.data.me.tag = "object"
    /\ Body.data.me.memberships = <<"acct2", "acct1">>
    /\ lastCall.v.outcome = ClientOk({"acct1", "acct2"})

====
